---- MODULE Spec2Model ----
(***************************************************************************)
(* Batch -> Profile converter (src/app.py): the Streamlit script run for   *)
(* an uploaded batch CSV, i.e. pd.read_csv, transform_batch_to_profile,    *)
(* DataFrame.to_csv and the banners the run leaves on the page.            *)
(*                                                                         *)
(* Representation.  A Python str is a sequence of one-character strings    *)
(* (the fixed labels of the output keep their literal as one piece, they   *)
(* never pass through strip/upper/startswith).  A DataFrame cell is a      *)
(* record [na, s]: na = TRUE is the float NaN / None that pandas stores    *)
(* for a missing value, otherwise s is the str.  A DataFrame is a record   *)
(* [columns, data] with data a sequence of rows of cells.  A Python name   *)
(* that may be unbound holds <<>> (unbound) or <<v>> (bound to v).         *)
(* DataFrames are mutable objects: they live in a heap (a sequence of      *)
(* frames) and names hold references (indices into the heap).  list(...)   *)
(* and dict(...) turn a value given element by element into the sequence   *)
(* or function it denotes, so that it is computed once.                    *)
(***************************************************************************)
EXTENDS Integers, Sequences, FiniteSets, TLC

VARIABLES uploaded_file, requests, src, call, converted, buffer, shown

vars == <<uploaded_file, requests, src, call, converted, buffer, shown>>

(***************************************************************************)
(* Bounds of the enumerated inputs.                                        *)
(***************************************************************************)
MaxRows == 3

MaxRequests == 2

(***************************************************************************)
(* Python str operations.                                                  *)
(***************************************************************************)
ascii_lowercase ==
    <<"a", "b", "c", "d", "e", "f", "g", "h", "i", "j", "k", "l", "m",
      "n", "o", "p", "q", "r", "s", "t", "u", "v", "w", "x", "y", "z">>

ascii_uppercase ==
    <<"A", "B", "C", "D", "E", "F", "G", "H", "I", "J", "K", "L", "M",
      "N", "O", "P", "Q", "R", "S", "T", "U", "V", "W", "X", "Y", "Z">>

digits == <<"0", "1", "2", "3", "4", "5", "6", "7", "8", "9">>

whitespace == {" "}

\* a list (or a str) given element by element, as the sequence it is
list(f) == f \o <<>>

\* a dict given key by key
dict(f) == f @@ <<>>

Letter(from, to, c) ==
    IF \E i \in DOMAIN from : from[i] = c
    THEN to[CHOOSE i \in DOMAIN from : from[i] = c]
    ELSE c

str_lower(s) == list([i \in DOMAIN s |-> Letter(ascii_uppercase, ascii_lowercase, s[i])])

str_upper(s) == list([i \in DOMAIN s |-> Letter(ascii_lowercase, ascii_uppercase, s[i])])

RECURSIVE lstrip(_)
lstrip(s) == IF s # <<>> /\ Head(s) \in whitespace THEN lstrip(Tail(s)) ELSE s

RECURSIVE rstrip(_)
rstrip(s) ==
    IF s # <<>> /\ s[Len(s)] \in whitespace
    THEN rstrip(SubSeq(s, 1, Len(s) - 1))
    ELSE s

str_strip(s) == rstrip(lstrip(s))

str_startswith(s, prefix) ==
    Len(s) >= Len(prefix) /\ SubSeq(s, 1, Len(prefix)) = prefix

\* str(n) of a non-negative int
RECURSIVE str_int(_)
str_int(n) ==
    IF n < Len(digits)
    THEN <<digits[n + 1]>>
    ELSE str_int(n \div Len(digits)) \o <<digits[(n % Len(digits)) + 1]>>

\* the truth value Python gives a str: "" is falsy
truthy(s) == s # <<>>

(***************************************************************************)
(* Cells and frames.                                                       *)
(***************************************************************************)
NaN == [na |-> TRUE, s |-> <<>>]

Str(t) == [na |-> FALSE, s |-> t]

isna(v) == v.na

isinstance_str(v) == ~v.na

Frame(cols, rows) == [columns |-> cols, data |-> rows]

nrows(f) == Len(f.data)

ncols(f) == Len(f.columns)

\* positions of the columns carrying label `name`
Positions(f, name) == {j \in DOMAIN f.columns : f.columns[j] = name}

\* `name in df.columns`
HasColumn(f, name) == Positions(f, name) # {}

\* a label carried by two columns: df[name] is then a DataFrame and
\* row[name] a Series, not a scalar
Duplicated(f, name) == Cardinality(Positions(f, name)) > 1

\* row[name] for a label carried by exactly one column
At(f, i, name) == f.data[i][CHOOSE j \in Positions(f, name) : TRUE]

(***************************************************************************)
(* pd.read_csv(uploaded_file, sep=";", dtype=str, engine="python").  The   *)
(* file is the sequence of its lines, a line the sequence of its fields    *)
(* (the text between the ";").  An empty file has no header line and       *)
(* raises EmptyDataError.  The first line gives the column labels as       *)
(* written; blank lines are skipped; a field that is one of the default    *)
(* NA markers, or a field a short line lacks, is read as NaN; every other  *)
(* field is kept as the str it is.                                         *)
(***************************************************************************)
STR_NA_VALUES ==
    {  <<>>, <<"#", "N", "/", "A">>, <<"#", "N", "/", "A", " ", "N", "/", "A">>,
       <<"#", "N", "A">>, <<"-", "1", ".", "#", "I", "N", "D">>, <<"-", "1", ".", "#", "Q", "N", "A", "N">>,
       <<"-", "N", "a", "N">>, <<"-", "n", "a", "n">>, <<"1", ".", "#", "I", "N", "D">>,
       <<"1", ".", "#", "Q", "N", "A", "N">>, <<"<", "N", "A", ">">>, <<"N", "/", "A">>,
       <<"N", "A">>, <<"N", "U", "L", "L">>, <<"N", "a", "N">>,
       <<"N", "o", "n", "e">>, <<"n", "/", "a">>, <<"n", "a", "n">>,
       <<"n", "u", "l", "l">>  }

BlankLine == << <<>> >>

ParseField(line, j) ==
    IF j > Len(line) \/ line[j] \in STR_NA_VALUES THEN NaN ELSE Str(line[j])

read_csv(file) ==
    IF file = <<>>
    THEN [raised |-> TRUE, frame |-> Frame(<<>>, <<>>)]
    ELSE LET header == file[1]
             lines  == SelectSeq(Tail(file), LAMBDA l : l # BlankLine)
         IN  [raised |-> FALSE,
              frame  |-> Frame(header,
                               list([i \in DOMAIN lines |->
                                   list([j \in DOMAIN header |-> ParseField(lines[i], j)])]))]

(***************************************************************************)
(* transform_batch_to_profile(src_df).                                     *)
(***************************************************************************)
name_group == <<"g", "r", "o", "u", "p">>

name_material == <<"m", "a", "t", "e", "r", "i", "a", "l">>

name_length == <<"l", "e", "n", "g", "t", "h">>

name_qty == <<"q", "t", "y">>

names_itemid ==
    << <<"i", "t", "e", "m", "i", "d">>,
       <<"i", "t", "e", "m", "_", "i", "d">>,
       <<"i", "t", "e", "m", " ", "i", "d">> >>

name__group == <<"_", "g", "r", "o", "u", "p">>

FCT == <<"F", "C", "T">>

\* a variant of line 11 without .copy(): df names the caller's object
df_alias(heap, ref) == [heap |-> heap, ref |-> ref]

\* line 11: src_df.copy() allocates a new frame object with the same content
df_copy(heap, ref) == [heap |-> Append(heap, heap[ref]), ref |-> Len(heap) + 1]

\* line 12: df.columns = [c.strip().lower() for c in df.columns], in place
set_columns(heap, ref) ==
    [heap EXCEPT ![ref].columns =
        list([j \in DOMAIN heap[ref].columns |-> str_lower(str_strip(heap[ref].columns[j]))])]

\* line 13: the lambda applymap applies to every cell
strip_cell(x) == IF isinstance_str(x) THEN Str(str_strip(x.s)) ELSE x

\* line 13: df.applymap(...) returns a new frame object
applymap(heap, ref) ==
    LET f == heap[ref]
        g == Frame(f.columns,
                   list([i \in DOMAIN f.data |->
                            list([j \in DOMAIN f.data[i] |-> strip_cell(f.data[i][j])])]))
    IN  [heap |-> Append(heap, g), ref |-> Len(heap) + 1]

\* lines 15-19: the first of `names` that is a column of df, else None
find_col(df, names) ==
    IF \E n \in DOMAIN names : HasColumn(df, names[n])
    THEN <<names[CHOOSE n \in DOMAIN names :
                    /\ HasColumn(df, names[n])
                    /\ \A m \in 1..(n - 1) : ~HasColumn(df, names[m])]>>
    ELSE <<>>

\* line 29: df["_group"] = "1", in place: overwrites the column when the
\* label exists, appends it otherwise
setitem(heap, ref, name, value) ==
    LET f == heap[ref]
    IN  IF HasColumn(f, name)
        THEN [heap EXCEPT ![ref].data =
                 list([i \in DOMAIN f.data |->
                     list([j \in DOMAIN f.data[i] |->
                         IF j \in Positions(f, name) THEN value ELSE f.data[i][j]])])]
        ELSE [heap EXCEPT ![ref] =
                 Frame(Append(f.columns, name),
                       list([i \in DOMAIN f.data |-> Append(f.data[i], value)]))]

\* line 33: df.groupby(col).head(1): the first row of every group, in the
\* original row order; rows whose key is NaN belong to no group (dropna)
first_rows(df, col) ==
    {i \in DOMAIN df.data :
        /\ ~isna(At(df, i, col))
        /\ \A h \in 1..(i - 1) : At(df, h, col) # At(df, i, col)}

RECURSIVE SortedSeq(_)
SortedSeq(S) ==
    IF S = {} THEN <<>>
    ELSE LET m == CHOOSE x \in S : \A y \in S : x <= y
         IN  <<m>> \o SortedSeq(S \ {m})

\* a variant of line 34 that orders the keys by their last occurrence
group_order_last(df, col) ==
    LET last == {i \in DOMAIN df.data :
                    /\ ~isna(At(df, i, col))
                    /\ \A h \in (i + 1)..Len(df.data) : At(df, h, col) # At(df, i, col)}
        idx  == SortedSeq(last)
    IN  list([n \in DOMAIN idx |-> At(df, idx[n], col).s])

\* line 34: list(first_rows[col_group].astype(str))
group_order_of(df, col) ==
    LET idx == SortedSeq(first_rows(df, col))
    IN  list([n \in DOMAIN idx |-> At(df, idx[n], col).s])

\* a variant of lines 40, 49 that selects only the run of adjacent rows that
\* starts at the first row of the group
rows_of_run(df, col, g) ==
    SortedSeq({i \in DOMAIN df.data :
        /\ At(df, i, col) = Str(g)
        /\ \E f \in 1..i :
               /\ \A h \in f..i : At(df, h, col) = Str(g)
               /\ \A h \in 1..(f - 1) : At(df, h, col) # Str(g)})

\* lines 40, 49: df[df[col_group] == g] (row positions, in order)
rows_of(df, col, g) ==
    SortedSeq({i \in DOMAIN df.data : At(df, i, col) = Str(g)})

\* lines 40, 49: the selected rows as a frame (.reset_index(drop=True))
select(df, col, g) ==
    LET idx == rows_of(df, col, g)
    IN  Frame(df.columns, list([n \in DOMAIN idx |-> df.data[idx[n]]]))

\* line 42: (v or ""): a falsy v (the empty str) gives ""; NaN is truthy
or_empty(v) == IF isinstance_str(v) /\ ~truthy(v.s) THEN Str(<<>>) ELSE v

\* line 42: gdf.iloc[0][col_material] is a Series when two columns carry the
\* label (its truth value raises ValueError); .upper() of a float raises
\* AttributeError
mat_raises(gdf, col) ==
    \/ Duplicated(gdf, col)
    \/ ~isinstance_str(or_empty(At(gdf, 1, col)))

\* lines 42-43
mat_stops(gdf, col) ==
    str_startswith(str_upper(or_empty(At(gdf, 1, col)).s), FCT)

\* lines 37-45: the scan from position idx (0-based) on; stop is None (<<>>)
\* or the position of the first group that triggers the rule
RECURSIVE stop_scan(_, _, _, _, _)
stop_scan(df, col_group, col_material, group_order, idx) ==
    IF idx >= Len(group_order)
    THEN [raised |-> FALSE, stop |-> <<>>]
    ELSE LET gdf == select(df, col_group, group_order[idx + 1])
         IN  IF nrows(gdf) = 0
             THEN stop_scan(df, col_group, col_material, group_order, idx + 1)
             ELSE IF mat_raises(gdf, col_material)
             THEN [raised |-> TRUE, stop |-> <<>>]
             ELSE IF mat_stops(gdf, col_material)
             THEN [raised |-> FALSE, stop |-> <<idx>>]
             ELSE stop_scan(df, col_group, col_material, group_order, idx + 1)

\* lines 37-38
stop_at(df, col_group, col_material, group_order) ==
    IF col_material # <<>>
    THEN stop_scan(df, col_group, col_material[1], group_order, 0)
    ELSE [raised |-> FALSE, stop |-> <<>>]

\* a variant of line 46 that keeps the stopping group too
kept_groups_inclusive(group_order, stop) ==
    IF stop # <<>> THEN SubSeq(group_order, 1, stop[1] + 1) ELSE group_order

\* line 46: group_order[:stop_at_idx] if stop_at_idx is not None else group_order
kept_groups_of(group_order, stop) ==
    IF stop # <<>> THEN SubSeq(group_order, 1, stop[1]) ELSE group_order

\* line 49: the dict keyed by group
group_rows_of(df, col_group, kept_groups) ==
    dict([g \in {kept_groups[n] : n \in DOMAIN kept_groups} |-> select(df, col_group, g)])

\* line 51: max((len(gdf) for gdf in group_rows.values()), default=0)
max_items_of(group_rows) ==
    IF DOMAIN group_rows = {} THEN 0
    ELSE LET lens == {nrows(group_rows[g]) : g \in DOMAIN group_rows}
         IN  CHOOSE m \in lens : \A n \in lens : n <= m

\* lines 53-58: idx is 0-based, col is a column label or None
get_val(group_rows, g, idx, col, default) ==
    LET gdf == group_rows[g]
    IN  IF idx < nrows(gdf) /\ col # <<>> /\ HasColumn(gdf, col[1])
        THEN IF Duplicated(gdf, col[1])
             THEN [raised |-> TRUE, s |-> <<>>]
             ELSE LET v == At(gdf, idx + 1, col[1])
                  IN  [raised |-> FALSE, s |-> IF isna(v) THEN <<>> ELSE v.s]
        ELSE [raised |-> FALSE, s |-> default]

\* a variant of lines 82, 85 without the (... or "0")
or_nothing(s) == s

\* lines 83, 87: (x or "0")
or_zero(s) == IF truthy(s) THEN s ELSE <<"0">>

(***************************************************************************)
(* Lines 60-95: the output rows (lists of str) and the frame built of them *)
(***************************************************************************)
\* [x] * n
Repeat(x, n) == list([i \in 1..n |-> x])

\* max(0, n)
max0(n) == IF n > 0 THEN n ELSE 0

\* line 64: [f"Page_{i+1}" for i in range(num_pages)]
page_labels(num_pages) == list([i \in 1..num_pages |-> <<"Page_">> \o str_int(i)])

\* lines 62-67
header_rows(num_pages) ==
    << <<<<"List separator=">>, <<"Decimal symbol=.">>>> \o Repeat(<<>>, max0(num_pages - 2)),
       <<<<"Scheme Scheme">>>> \o Repeat(<<>>, num_pages),
       <<<<"LANGID_804">>>> \o page_labels(num_pages),
       <<<<"LANGID_404">>>> \o page_labels(num_pages),
       <<<<"1">>>> \o list([i \in 1..num_pages |-> str_int(i)]) >>

\* the label f"204_HMI_Scheme_ProjectData_{field}"
project_data(field) == <<"204_HMI_Scheme_ProjectData_", field>>

\* the label f"204_HMI_Scheme_ProjectData_PerformData{{{k}}}.{field}"
perform_data(k, field) ==
    <<"204_HMI_Scheme_ProjectData_", "PerformData{">> \o str_int(k) \o <<"}.", field>>

\* line 72: [get_val(g, 0, col_material, "") for g in kept_groups]
profile_names(group_rows, kept_groups, col_material) ==
    list([n \in DOMAIN kept_groups |->
             get_val(group_rows, kept_groups[n], 0, col_material, <<>>).s])

\* lines 70-77
static_rows(group_rows, kept_groups, col_material, num_pages) ==
    << <<project_data("BarchCode")>> \o Repeat(<<"1">>, num_pages),
       <<project_data("EngInfo")>> \o Repeat(<<"1">>, num_pages),
       <<project_data("ProfileName")>> \o profile_names(group_rows, kept_groups, col_material),
       <<project_data("ProfileCode")>> \o Repeat(<<"0">>, num_pages),
       <<project_data("RawLength")>> \o Repeat(<<"4", "8", "7", "0">>, num_pages),
       <<project_data("RawHeight")>> \o Repeat(<<"0">>, num_pages),
       <<project_data("RawWidth")>> \o Repeat(<<"0">>, num_pages),
       <<project_data("Amount")>> \o Repeat(<<"0">>, num_pages) >>

\* lines 83, 87: [(get_val(g, idx, col, "0") or "0") for g in kept_groups]
zero_vals(group_rows, kept_groups, idx, col) ==
    list([n \in DOMAIN kept_groups |->
             or_zero(get_val(group_rows, kept_groups[n], idx, col, <<"0">>).s)])

\* a variant of lines 80-87 that emits angle1 before angle2
perform_rows_swapped(group_rows, kept_groups, col_length, col_qty, num_pages, k) ==
    << <<perform_data(k, "length")>> \o zero_vals(group_rows, kept_groups, k - 1, col_length),
       <<perform_data(k, "angle1")>> \o Repeat(<<"0">>, num_pages),
       <<perform_data(k, "angle2")>> \o Repeat(<<"0">>, num_pages),
       <<perform_data(k, "quantity")>> \o zero_vals(group_rows, kept_groups, k - 1, col_qty) >>

\* lines 81-87: the four rows of item k
perform_rows(group_rows, kept_groups, col_length, col_qty, num_pages, k) ==
    << <<perform_data(k, "length")>> \o zero_vals(group_rows, kept_groups, k - 1, col_length),
       <<perform_data(k, "angle2")>> \o Repeat(<<"0">>, num_pages),
       <<perform_data(k, "angle1")>> \o Repeat(<<"0">>, num_pages),
       <<perform_data(k, "quantity")>> \o zero_vals(group_rows, kept_groups, k - 1, col_qty) >>

\* lines 80-87: for k in range(1, max_items + 1), from item k on
RECURSIVE perform_block(_, _, _, _, _, _, _)
perform_block(group_rows, kept_groups, col_length, col_qty, num_pages, max_items, k) ==
    IF k > max_items THEN <<>>
    ELSE perform_rows(group_rows, kept_groups, col_length, col_qty, num_pages, k)
         \o perform_block(group_rows, kept_groups, col_length, col_qty, num_pages, max_items, k + 1)

\* lines 90-93
barcode_block(group_rows, kept_groups, col_itemid, max_items) ==
    list([k \in 1..max_items |->
             <<perform_data(k, "barcode")>>
             \o list([n \in DOMAIN kept_groups |->
                         get_val(group_rows, kept_groups[n], k - 1, col_itemid, <<>>).s])])

\* lines 60-93: rows
build_rows(group_rows, kept_groups, cols, num_pages, max_items) ==
    header_rows(num_pages)
    \o static_rows(group_rows, kept_groups, cols.material, num_pages)
    \o perform_block(group_rows, kept_groups, cols.length, cols.qty, num_pages, max_items, 1)
    \o barcode_block(group_rows, kept_groups, cols.itemid, max_items)

\* lines 72, 83, 87, 93: some get_val call made while the rows are built raises
rows_raise(group_rows, kept_groups, cols, max_items) ==
    \E n \in DOMAIN kept_groups :
        \/ get_val(group_rows, kept_groups[n], 0, cols.material, <<>>).raised
        \/ \E k \in 1..max_items : \E c \in {cols.length, cols.qty, cols.itemid} :
               get_val(group_rows, kept_groups[n], k - 1, c, <<>>).raised

\* line 95: pd.DataFrame(rows): as wide as the longest list, a shorter list
\* is filled up with None; the columns are labelled 0, 1, ...
DataFrame(rows) ==
    LET lens  == {Len(rows[i]) : i \in DOMAIN rows}
        width == IF lens = {} THEN 0 ELSE CHOOSE m \in lens : \A n \in lens : n <= m
    IN  Frame(list([j \in 1..width |-> str_int(j - 1)]),
              list([i \in DOMAIN rows |->
                  list([j \in 1..width |->
                           IF j <= Len(rows[i]) THEN Str(rows[i][j]) ELSE NaN])]))

\* line 95: .fillna("")
fillna(f, value) ==
    Frame(f.columns,
          list([i \in DOMAIN f.data |->
              list([j \in DOMAIN f.data[i] |->
                  IF isna(f.data[i][j]) THEN Str(value) ELSE f.data[i][j]])]))

(***************************************************************************)
(* Lines 10-95.  The call works on the heap; it returns the heap it leaves *)
(* behind, whether it raised, the frame it returns and the locals the      *)
(* properties speak of (empty when the call raised before binding them).   *)
(***************************************************************************)
Raised(heap) ==
    [heap |-> heap, raised |-> TRUE, result |-> <<>>, group_order |-> <<>>,
     kept_groups |-> <<>>, num_pages |-> 0, max_items |-> 0]

\* lines 60-95: the rows are built and the frame is returned
emit_rows(heap, cols, group_order, kept_groups, group_rows, num_pages, max_items) ==
    IF rows_raise(group_rows, kept_groups, cols, max_items)
    THEN Raised(heap)
    ELSE [heap        |-> heap,
          raised      |-> FALSE,
          result      |-> <<fillna(DataFrame(build_rows(group_rows, kept_groups, cols,
                                                        num_pages, max_items)),
                               <<>>)>>,
          group_order |-> group_order,
          kept_groups |-> kept_groups,
          num_pages   |-> num_pages,
          max_items   |-> max_items]

\* lines 50-51: num_pages, max_items
count_items(heap, cols, group_order, kept_groups, group_rows) ==
    emit_rows(heap, cols, group_order, kept_groups, group_rows,
              Len(kept_groups), max_items_of(group_rows))

\* line 49: group_rows
organize_rows(heap, df, col_group, cols, group_order, kept_groups) ==
    count_items(heap, cols, group_order, kept_groups,
                group_rows_of(df, col_group, kept_groups))

\* line 46: kept_groups; an exception of the scan leaves the call
keep_groups(heap, df, col_group, cols, group_order, scan) ==
    IF scan.raised
    THEN Raised(heap)
    ELSE organize_rows(heap, df, col_group, cols, group_order,
                       kept_groups_of(group_order, scan.stop))

\* lines 36-45: stop_at_idx
scan_groups(heap, df, col_group, cols, group_order) ==
    keep_groups(heap, df, col_group, cols, group_order,
                stop_at(df, col_group, cols.material, group_order))

\* lines 33-34: group_order; groupby raises ValueError (grouper not
\* 1-dimensional) when two columns carry the label
order_groups(heap, ref, col_group, cols) ==
    IF Duplicated(heap[ref], col_group)
    THEN Raised(heap)
    ELSE scan_groups(heap, heap[ref], col_group, cols,
                     group_order_of(heap[ref], col_group))

\* lines 28-30: the default single group
default_group(heap, ref, found, cols) ==
    IF found = <<>>
    THEN order_groups(setitem(heap, ref, name__group, Str(<<"1">>)), ref, name__group, cols)
    ELSE order_groups(heap, ref, found[1], cols)

\* lines 22-25: the columns of the other roles
other_cols(df) ==
    [material |-> find_col(df, <<name_material>>),
     length   |-> find_col(df, <<name_length>>),
     qty      |-> find_col(df, <<name_qty>>),
     itemid   |-> find_col(df, names_itemid)]

\* lines 21-25: a is the frame applymap returned, now bound to df
resolve_cols(a) ==
    default_group(a.heap, a.ref, find_col(a.heap[a.ref], <<name_group>>),
                  other_cols(a.heap[a.ref]))

\* lines 12-13: c is the copy, bound to df
normalize(c) == resolve_cols(applymap(set_columns(c.heap, c.ref), c.ref))

\* lines 10-11
transform_batch_to_profile(heap, src_df) == normalize(df_copy(heap, src_df))

(***************************************************************************)
(* Line 110: converted.to_csv(buffer, index=False, header=False): one line *)
(* per row, the cells joined by ",", a cell holding the delimiter, a quote *)
(* or a line break quoted with its quotes doubled.                         *)
(***************************************************************************)
special == {",", "\"", "\n", "\r"}

RECURSIVE double_quotes(_)
double_quotes(s) ==
    IF s = <<>> THEN <<>>
    ELSE (IF Head(s) = "\"" THEN <<"\"", "\"">> ELSE <<Head(s)>>) \o double_quotes(Tail(s))

csv_field(s) ==
    IF \E i \in DOMAIN s : s[i] \in special
    THEN <<"\"">> \o double_quotes(s) \o <<"\"">>
    ELSE s

RECURSIVE csv_join(_)
csv_join(row) ==
    IF row = <<>> THEN <<>>
    ELSE IF Len(row) = 1 THEN csv_field(row[1].s)
    ELSE csv_field(row[1].s) \o <<",">> \o csv_join(Tail(row))

to_csv(f) == list([i \in DOMAIN f.data |-> csv_join(f.data[i])])

(***************************************************************************)
(* Lines 103-120: one run of the script.  Streamlit runs the script from   *)
(* its first line in a fresh namespace on every interaction, and the page  *)
(* shows the elements that run emitted.                                    *)
(***************************************************************************)
Element(kind, text) == [kind |-> kind, text |-> text]

\* line 113: converted.shape[1] - 1
pages_generated(f) == ncols(f) - 1

\* lines 113-116
success_elements(f) ==
    << Element("success", <<"Converted successfully! Pages generated: ">>
                          \o str_int(pages_generated(f))),
       Element("download_button", <<"converted_profile.csv">>),
       Element("dataframe", <<>>) >>

\* line 118
error_elements == << Element("error", <<"Error: ">>) >>

\* line 120
info_elements == << Element("info", <<"Upload a file to begin.">>) >>

NotInvoked ==
    [invoked |-> FALSE, raised |-> FALSE, group_order |-> <<>>, kept_groups |-> <<>>,
     num_pages |-> 0, max_items |-> 0]

Namespace(s, c, conv, buf) == [src |-> s, call |-> c, converted |-> conv, buffer |-> buf]

Invoked(t) ==
    [invoked |-> TRUE, raised |-> t.raised, group_order |-> t.group_order,
     kept_groups |-> t.kept_groups, num_pages |-> t.num_pages, max_items |-> t.max_items]

\* lines 109-116: t is what the call of line 108 left
after_transform(t) ==
    IF t.raised
    THEN [raised |-> TRUE, emitted |-> <<>>,
          names |-> Namespace(<<t.heap[1]>>, Invoked(t), <<>>, <<>>)]
    ELSE [raised |-> FALSE, emitted |-> success_elements(t.result[1]),
          names |-> Namespace(<<t.heap[1]>>, Invoked(t), t.result, <<to_csv(t.result[1])>>)]

\* a variant of lines 107-108 in which a failed read does not end the try
after_read_unchecked(parsed) ==
    after_transform(transform_batch_to_profile(<<parsed.frame>>, 1))

\* line 108: parsed is what read_csv left; src is object 1 of the heap
after_read(parsed) ==
    IF parsed.raised
    THEN [raised |-> TRUE, emitted |-> <<>>,
          names |-> Namespace(<<>>, NotInvoked, <<>>, <<>>)]
    ELSE after_transform(transform_batch_to_profile(<<parsed.frame>>, 1))

\* lines 107-116, the body of the try: the names it bound, the elements it
\* emitted and whether it ended in an exception
try_body(file) == after_read(read_csv(file))

\* lines 117-118: except Exception
handled(b) ==
    [names |-> b.names,
     shown |-> IF b.raised THEN b.emitted \o error_elements ELSE b.emitted]

\* lines 105-120
Run(file) ==
    IF file = <<>>
    THEN [names |-> Namespace(<<>>, NotInvoked, <<>>, <<>>), shown |-> info_elements]
    ELSE handled(try_body(file[1]))

(***************************************************************************)
(* The uploads enumerated.  A file is built over one of a few header       *)
(* lines; every field of a data line is drawn from the values listed for   *)
(* its column.  The empty file is the upload read_csv rejects.             *)
(***************************************************************************)
Col(name, values) == [name |-> name, values |-> values]

Headers ==
    { \* group and material, the labels to be normalised
      << Col(<<" ", "G", "r", "o", "u", "p", " ">>, {<<"1", "0">>, <<"2">>, <<"7">>}),
         Col(<<"M", "a", "t", "e", "r", "i", "a", "l">>,
             {<<"a", "b">>, <<" ", "f", "c", "T", "-", "9">>, <<"N", "/", "A">>}) >>,
      \* group and length; no material, no qty, no item id
      << Col(<<"g", "r", "o", "u", "p">>, {<<"1", "0">>, <<" ", "2">>, <<>>}),
         Col(<<"L", "E", "N", "G", "T", "H">>, {<<"5">>, <<" ", "6", "0", " ">>, <<>>}) >>,
      \* no group; two aliases of the item id, the later one of the alias list first
      << Col(<<"I", "t", "e", "m", " ", "I", "D">>, {<<"p">>}),
         Col(<<"m", "a", "t", "e", "r", "i", "a", "l">>,
             {<<"a", "b">>, <<"F", "C", "T">>, <<"n", "u", "l", "l">>, <<" ">>}),
         Col(<<"i", "t", "e", "m", "_", "i", "d">>, {<<"q">>, <<>>}) >>,
      \* qty alone
      << Col(<<"Q", "T", "Y">>, {<<"7">>, <<" ">>, <<"N", "A">>}) >>,
      \* two columns that normalise to group
      << Col(<<"G", "r", "o", "u", "p">>, {<<"1">>}),
         Col(<<"g", "r", "o", "u", "p">>, {<<"1">>, <<"2">>}) >>,
      \* two columns that normalise to length
      << Col(<<"g", "r", "o", "u", "p">>, {<<"1", "0">>, <<"2">>}),
         Col(<<"L", "e", "n", "g", "t", "h">>, {<<"5">>}),
         Col(<<"l", "e", "n", "g", "t", "h", " ">>, {<<"6">>, <<>>}) >>,
      \* no column of any role
      << Col(<<"W", "i", "d", "t", "h">>, {<<"3">>}) >> }

Lines(h) ==
    LET all == UNION {h[j].values : j \in DOMAIN h}
    IN  {l \in [DOMAIN h -> all] : \A j \in DOMAIN h : l[j] \in h[j].values}

FilesOver(h) ==
    LET header == [j \in DOMAIN h |-> h[j].name]
    IN  UNION {{<<header>> \o body : body \in [1..n -> Lines(h)]} : n \in 0..MaxRows}

Files == {<<>>} \cup UNION {FilesOver(h) : h \in Headers}

\* the uploads tried after the first one
FollowUps ==
    { <<>>,
      << <<name_group, name_length>>, <<<<"1">>, <<"5">>>>, <<<<"2">>, <<"6">>>> >> }

(***************************************************************************)
(* The state machine: the page after each run of the script.               *)
(***************************************************************************)
Shows(r) ==
    /\ src' = r.names.src
    /\ call' = r.names.call
    /\ converted' = r.names.converted
    /\ buffer' = r.names.buffer
    /\ shown' = r.shown

\* the page is opened: the script runs with no file uploaded
Init ==
    /\ uploaded_file = <<>>
    /\ requests = 0
    /\ src = <<>>
    /\ call = NotInvoked
    /\ converted = <<>>
    /\ buffer = <<>>
    /\ shown = info_elements

\* the user uploads a file: the script runs with uploaded_file set
Upload(file) ==
    /\ uploaded_file' = <<file>>
    /\ requests' = requests + 1
    /\ Shows(Run(<<file>>))

FirstUpload == requests = 0 /\ \E file \in Files : Upload(file)

NextUpload ==
    /\ requests > 0
    /\ requests < MaxRequests
    /\ \E file \in FollowUps : Upload(file)

\* the user removes the file: the script runs with uploaded_file None
Clear ==
    /\ uploaded_file # <<>>
    /\ uploaded_file' = <<>>
    /\ requests' = requests
    /\ Shows(Run(<<>>))

Next == FirstUpload \/ NextUpload \/ Clear

Spec == Init /\ [][Next]_vars

(***************************************************************************)
(* The input table as the specification describes it, read off the upload  *)
(* itself: labels are compared trimmed and lower-cased, a cell is its      *)
(* trimmed text, a missing cell has no text.  View(t) lists, per role, the *)
(* positions of the columns that carry it and, per row, the cell of the    *)
(* role as <<>> (missing, or no such column) or <<text>>.                  *)
(***************************************************************************)
Uploaded == uploaded_file # <<>>

Parsed == Uploaded /\ ~read_csv(uploaded_file[1]).raised

Input == read_csv(uploaded_file[1]).frame

Returned == call.invoked /\ ~call.raised

Label(t, j) == str_lower(str_strip(t.columns[j]))

Carrying(t, name) == {j \in DOMAIN t.columns : Label(t, j) = name}

NoDuplicateLabels(t) ==
    \A j, k \in DOMAIN t.columns : Label(t, j) = Label(t, k) => j = k

ItemCarrying(t) ==
    IF Carrying(t, names_itemid[1]) # {} THEN Carrying(t, names_itemid[1])
    ELSE IF Carrying(t, names_itemid[2]) # {} THEN Carrying(t, names_itemid[2])
    ELSE Carrying(t, names_itemid[3])

\* per row, the cell in the column at one of the positions J
Texts(t, J) ==
    list([i \in DOMAIN t.data |->
             IF J = {} THEN <<>>
             ELSE IF isna(t.data[i][CHOOSE j \in J : TRUE]) THEN <<>>
             ELSE <<str_strip(t.data[i][CHOOSE j \in J : TRUE].s)>>])

\* without a group column every row has the key "1"
KeyTexts(t, J) ==
    IF J = {} THEN list([i \in DOMAIN t.data |-> <<<<"1">>>>]) ELSE Texts(t, J)

View(t) ==
    [rows         |-> DOMAIN t.data,
     has_group    |-> Carrying(t, name_group) # {},
     has_material |-> Carrying(t, name_material) # {},
     key          |-> KeyTexts(t, Carrying(t, name_group)),
     material     |-> Texts(t, Carrying(t, name_material)),
     length       |-> Texts(t, Carrying(t, name_length)),
     qty          |-> Texts(t, Carrying(t, name_qty)),
     item         |-> Texts(t, ItemCarrying(t))]

\* the text of a cell, empty when the cell is missing
TextOf(cell) == IF cell = <<>> THEN <<>> ELSE cell[1]

\* the rows of group g; a row whose group cell is missing is in no group
RowsWithKey(v, g) == {i \in v.rows : v.key[i] = <<g>>}

Keys(v) == {v.key[i][1] : i \in {h \in v.rows : v.key[h] # <<>>}}

FirstRow(v, g) == CHOOSE i \in v.rows : v.key[i] = <<g>> /\ \A h \in 1..(i - 1) : v.key[h] # <<g>>

\* the position of row i among the rows of its group, in input order
Rank(v, i) == Cardinality({h \in 1..i : v.key[h] = v.key[i]})

Count(v, g) == Cardinality(RowsWithKey(v, g))

\* the first row of a group that starts at row i carries a material that
\* starts with FCT
Triggers(v, i) ==
    v.has_material /\ str_startswith(str_upper(TextOf(v.material[i])), FCT)

FirstRows(v) == {FirstRow(v, g) : g \in Keys(v)}

\* the groups that come before every group that triggers the stop rule
BeforeStop(v) ==
    {v.key[i][1] : i \in {h \in FirstRows(v) :
                             \A f \in FirstRows(v) : f <= h => ~Triggers(v, f)}}

KeptSet == {call.kept_groups[p] : p \in DOMAIN call.kept_groups}

\* a sequence of distinct group keys in the order of their first rows
InFirstRowOrder(v, seq) ==
    \A p, q \in DOMAIN seq : p < q => FirstRow(v, seq[p]) < FirstRow(v, seq[q])

\* the output table: its label column and the cell of a labelled row on page p
Out == converted[1]

OutLabel(r) == Out.data[r][1].s

OutCell(label, p) ==
    Out.data[CHOOSE r \in DOMAIN Out.data : OutLabel(r) = label][p + 1].s

Kinds == [e \in DOMAIN shown |-> shown[e].kind]

(***************************************************************************)
(* C1.  The transformer never raises on a table of text cells: whichever   *)
(* role columns are absent and whichever cells are missing, the call       *)
(* returns (stated here for the tables whose normalised labels are         *)
(* pairwise distinct).                                                     *)
(***************************************************************************)
C1_NeverRaises == (call.invoked /\ NoDuplicateLabels(Input)) => ~call.raised

(***************************************************************************)
(* C2.  Every row of the returned table is one label followed by exactly   *)
(* num_pages values, and the page count the shell reports (columns minus   *)
(* one) is num_pages, for every num_pages >= 0.                            *)
(***************************************************************************)
C2_WidthIsPages ==
    Returned =>
        /\ \A r \in DOMAIN Out.data : Len(Out.data[r]) = 1 + call.num_pages
        /\ ncols(Out) - 1 = call.num_pages

C4_KeptIsPrefix ==
    (call.invoked /\ NoDuplicateLabels(Input)) =>
        LET v == View(Input)
        IN  /\ ~call.raised
            /\ KeptSet = BeforeStop(v)
            /\ Len(call.kept_groups) = Cardinality(BeforeStop(v))
            /\ InFirstRowOrder(v, call.kept_groups)

(***************************************************************************)
(* C5.  The pages are in the order in which the group keys first appear    *)
(* in the input rows: for two kept groups, one's page comes before the     *)
(* other's exactly when its first row comes first; page p is labelled      *)
(* Page_p in both LANGID rows and p in the "1" row.                        *)
(***************************************************************************)
C5_PageOrder ==
    Returned =>
        LET v == View(Input)
        IN  /\ KeptSet \subseteq Keys(v)
            /\ \A p, q \in DOMAIN call.kept_groups :
                   p < q <=> FirstRow(v, call.kept_groups[p]) < FirstRow(v, call.kept_groups[q])
            /\ \A p \in 1..call.num_pages :
                   /\ OutCell(<<"LANGID_804">>, p) = <<"Page_", digits[p + 1]>>
                   /\ OutCell(<<"LANGID_404">>, p) = <<"Page_", digits[p + 1]>>
                   /\ OutCell(<<"1">>, p) = <<digits[p + 1]>>

\* three pages whose keys are in neither lexicographic nor numeric order
C5_Witness ==
    /\ Returned
    /\ call.kept_groups = << <<"7">>, <<"1", "0">>, <<"2">> >>
    /\ OutCell(<<"LANGID_804">>, call.num_pages) = <<"Page_", digits[call.num_pages + 1]>>

(***************************************************************************)
(* C6.  max_items is the largest row count of a kept group (0 when none is *)
(* kept); the length and quantity cells of item k on a group's page are    *)
(* "0" when the group has fewer than k rows, the column is absent or the   *)
(* cell is missing or empty, and the cell's text otherwise; the barcode    *)
(* cell is "" in those cases; without a qty column every quantity is "0".  *)
(***************************************************************************)
NthRow(v, g, k) == CHOOSE i \in v.rows : v.key[i] = <<g>> /\ Rank(v, i) = k

Largest(S) == IF S = {} THEN 0 ELSE CHOOSE m \in S : \A n \in S : n <= m

ZeroIfEmpty(text) == IF text = <<>> THEN <<"0">> ELSE text

PerformLabel(k, field) ==
    <<"204_HMI_Scheme_ProjectData_", "PerformData{", digits[k + 1], "}.", field>>

C6_ItemDefaults ==
    Returned =>
        LET v == View(Input)
        IN  /\ call.max_items = Largest({Count(v, g) : g \in KeptSet})
            /\ \A p \in 1..call.num_pages : \A k \in 1..call.max_items :
                   IF k <= Count(v, call.kept_groups[p])
                   THEN LET i == NthRow(v, call.kept_groups[p], k)
                        IN  /\ OutCell(PerformLabel(k, "length"), p)
                                   = ZeroIfEmpty(TextOf(v.length[i]))
                            /\ OutCell(PerformLabel(k, "quantity"), p)
                                   = ZeroIfEmpty(TextOf(v.qty[i]))
                            /\ OutCell(PerformLabel(k, "barcode"), p) = TextOf(v.item[i])
                   ELSE /\ OutCell(PerformLabel(k, "length"), p) = <<"0">>
                        /\ OutCell(PerformLabel(k, "quantity"), p) = <<"0">>
                        /\ OutCell(PerformLabel(k, "barcode"), p) = <<>>
            /\ Carrying(Input, name_qty) = {} =>
                   \A p \in 1..call.num_pages : \A k \in 1..call.max_items :
                       OutCell(PerformLabel(k, "quantity"), p) = <<"0">>

\* two pages, the second group shorter than the first; on the first page a
\* length that was trimmed and a length that was missing
C6_Witness ==
    /\ Returned
    /\ call.num_pages = 2
    /\ call.max_items = 2
    /\ Count(View(Input), call.kept_groups[2]) = 1
    /\ OutCell(PerformLabel(1, "length"), 1) = <<"6", "0">>
    /\ TextOf(View(Input).length[NthRow(View(Input), call.kept_groups[1], 2)]) = <<>>
    /\ OutCell(PerformLabel(2, "length"), 1) = <<"0">>
    /\ OutCell(PerformLabel(2, "length"), 2) = <<"0">>
    /\ OutCell(PerformLabel(2, "barcode"), 2) = <<>>

(***************************************************************************)
(* C7.  A conversion request ends in exactly one of two outcomes: parse,   *)
(* transform and serialise all succeeded and the success banner and the    *)
(* download of the complete output are offered; or a step failed, the      *)
(* error message alone is shown and no output is offered.  A parse failure *)
(* means the transformer is never invoked.  Nothing of an earlier request  *)
(* is on the page.                                                         *)
(***************************************************************************)
C7_TwoOutcomes ==
    IF ~Uploaded
    THEN Kinds = <<"info">> /\ converted = <<>> /\ buffer = <<>>
    ELSE /\ Parsed <=> call.invoked
         /\ IF Parsed /\ Returned
            THEN /\ Kinds = <<"success", "download_button", "dataframe">>
                 /\ converted # <<>>
                 /\ buffer # <<>>
                 /\ Len(buffer[1]) = nrows(Out)
                 /\ \A r \in DOMAIN buffer[1] : buffer[1][r] # <<>>
            ELSE /\ Kinds = <<"error">>
                 /\ converted = <<>>
                 /\ buffer = <<>>

\* a later request whose file cannot be parsed: the transformer is not
\* invoked, the error alone is shown
C7_Witness ==
    /\ requests > 1
    /\ Uploaded
    /\ ~Parsed
    /\ ~call.invoked
    /\ Kinds = <<"error">>
    /\ buffer = <<>>

(***************************************************************************)
(* C8.  The call leaves the caller's table as it was, whether it returns   *)
(* or raises: the same labels, untrimmed and in their case, the same       *)
(* cells, untrimmed, and the same columns (no _group column).              *)
(***************************************************************************)
C8_InputUntouched == call.invoked => src = <<Input>>

\* a returning call on a table without group column, with a label that
\* normalisation changes and a cell that trimming changes
C8_Witness ==
    /\ Returned
    /\ Carrying(Input, name_group) = {}
    /\ \E j \in DOMAIN Input.columns : Label(Input, j) # Input.columns[j]
    /\ \E i \in DOMAIN Input.data : \E j \in DOMAIN Input.columns :
           strip_cell(Input.data[i][j]) # Input.data[i][j]
    /\ src = <<Input>>

(***************************************************************************)
(* C9.  The output has 13 + 5 * max_items rows: the 5 header rows, the 8   *)
(* static rows, then for k = 1..max_items the rows length, angle2, angle1, *)
(* quantity of PerformData{k}, then the rows PerformData{k}.barcode for    *)
(* k = 1..max_items; the labels are pairwise distinct.                     *)
(***************************************************************************)
FixedLabels ==
    << <<"List separator=">>,
       <<"Scheme Scheme">>,
       <<"LANGID_804">>,
       <<"LANGID_404">>,
       <<"1">>,
       <<"204_HMI_Scheme_ProjectData_", "BarchCode">>,
       <<"204_HMI_Scheme_ProjectData_", "EngInfo">>,
       <<"204_HMI_Scheme_ProjectData_", "ProfileName">>,
       <<"204_HMI_Scheme_ProjectData_", "ProfileCode">>,
       <<"204_HMI_Scheme_ProjectData_", "RawLength">>,
       <<"204_HMI_Scheme_ProjectData_", "RawHeight">>,
       <<"204_HMI_Scheme_ProjectData_", "RawWidth">>,
       <<"204_HMI_Scheme_ProjectData_", "Amount">> >>

ItemFields == <<"length", "angle2", "angle1", "quantity">>

\* the label of output row r when there are m items
ExpectedLabel(r, m) ==
    LET fixed == Len(FixedLabels)
        each  == Len(ItemFields)
    IN  IF r <= fixed THEN FixedLabels[r]
        ELSE IF r <= fixed + each * m
        THEN PerformLabel(((r - fixed - 1) \div each) + 1,
                          ItemFields[((r - fixed - 1) % each) + 1])
        ELSE PerformLabel(r - fixed - each * m, "barcode")

C9_RowOrder ==
    Returned =>
        /\ nrows(Out) = 13 + 5 * call.max_items
        /\ \A r \in DOMAIN Out.data : OutLabel(r) = ExpectedLabel(r, call.max_items)
        /\ \A r, q \in DOMAIN Out.data : OutLabel(r) = OutLabel(q) => r = q

\* two items: both blocks have more than one entry
C9_Witness ==
    /\ Returned
    /\ call.max_items = 2
    /\ nrows(Out) = 23
    /\ OutLabel(18) = PerformLabel(2, "length")
    /\ OutLabel(22) = PerformLabel(1, "barcode")

(***************************************************************************)
(* C10.  Every input row of a kept group has one slot: the page of its     *)
(* group and the index that is its position among the rows of that group   *)
(* in input order, contiguous or not; the length, quantity and barcode of  *)
(* the slot, and ProfileName for index 1, are read from that row.  A slot  *)
(* beyond a group's rows holds the defaults, and max_items counts the rows *)
(* of kept groups only.                                                    *)
(***************************************************************************)
PageOf(g) == CHOOSE p \in DOMAIN call.kept_groups : call.kept_groups[p] = g

C10_RowSlots ==
    Returned =>
        LET v == View(Input)
        IN  /\ \A p, q \in DOMAIN call.kept_groups :
                   call.kept_groups[p] = call.kept_groups[q] => p = q
            /\ \A i \in v.rows :
                   (v.key[i] # <<>> /\ v.key[i][1] \in KeptSet) =>
                       /\ Rank(v, i) <= call.max_items
                       /\ OutCell(PerformLabel(Rank(v, i), "length"), PageOf(v.key[i][1]))
                              = ZeroIfEmpty(TextOf(v.length[i]))
                       /\ OutCell(PerformLabel(Rank(v, i), "quantity"), PageOf(v.key[i][1]))
                              = ZeroIfEmpty(TextOf(v.qty[i]))
                       /\ OutCell(PerformLabel(Rank(v, i), "barcode"), PageOf(v.key[i][1]))
                              = TextOf(v.item[i])
                       /\ Rank(v, i) = 1 =>
                              OutCell(FixedLabels[8], PageOf(v.key[i][1]))
                                  = TextOf(v.material[i])
            /\ call.max_items > 0 =>
                   \E g \in KeptSet : Count(v, g) = call.max_items
            /\ \A p \in 1..call.num_pages : \A k \in 1..call.max_items :
                   k > Count(v, call.kept_groups[p]) =>
                       /\ OutCell(PerformLabel(k, "length"), p) = <<"0">>
                       /\ OutCell(PerformLabel(k, "barcode"), p) = <<>>

\* a kept group whose rows are not contiguous: its second slot is read from
\* the third input row
C10_Witness ==
    /\ Returned
    /\ call.num_pages = 2
    /\ nrows(Input) = 3
    /\ View(Input).key[1] = View(Input).key[3]
    /\ View(Input).key[1] # View(Input).key[2]
    /\ View(Input).length[1] # View(Input).length[3]
    /\ OutCell(PerformLabel(2, "length"), 1) = TextOf(View(Input).length[3])
    /\ OutCell(PerformLabel(2, "length"), 1) # <<"0">>

====
